---- MODULE Spec2Model ----
(***************************************************************************)
(* Model of viking_fitatu_integration.py: the product reconciler           *)
(* (create_or_find_product), the diet plan publisher (publish_diet_plan)   *)
(* and the run (main), against a tracker that stores products and plans.   *)
(***************************************************************************)
EXTENDS Integers, Sequences, FiniteSets

VARIABLES
    products,   \* tracker: the user's products, in the order a search returns them
    nextId,     \* tracker: the foodId the next created product gets
    cfp,        \* the last create_or_find_product call: arguments, requests, result
    prevCfp,    \* the call before it
    calls,      \* number of create_or_find_product calls made
    plan,       \* tracker: per date and slot, the diet plan's items
    nextItem,   \* the next fresh planDayDietItemId (uuid1)
    clock,      \* datetime.now()
    pub,        \* the last publish_diet_plan call: arguments, requests, result
    prevPub,    \* the call before it
    blind,      \* some publish wrote a plan after its read of the plan failed
    pubs,       \* number of publish_diet_plan calls made
    TARGET_DATES,       \* config: the explicit date list, if set
    TARGET_DATE_RANGE,  \* config: the (start, end) pair, if set
    orderAtVendor,      \* vendor: the order's deliveries
    pc,         \* main: where the run is
    err,        \* main: the exception that ended the run, "" if none
    netCalls,   \* main: number of requests sent so far
    order_data, \* main: the fetched order's deliveries
    selected,   \* main: the sequence select_dates returned
    di,         \* main: index of the date being processed
    published,  \* main: per selected date, the publish_diet_plan invocations
    todo,       \* process_date: the date's deliveries not processed yet
    meals,      \* process_meal: the delivery's meals not processed yet
    pm_meal_ids,        \* process_meal: its meal_ids, mealName -> product id
    pm_meal_weights,    \* process_meal: its meal_weights, mealName -> weight
    all_meal_ids,       \* process_date: merged over the date's deliveries
    all_meal_weights,
    resolved    \* history: the meal names of the date that got a product id

recVars == <<products, nextId, cfp, prevCfp, calls>>
pubVars == <<plan, nextItem, clock, pub, prevPub, blind, pubs>>
cfgVars == <<TARGET_DATES, TARGET_DATE_RANGE, orderAtVendor>>
runVars == <<pc, err, netCalls, order_data, selected, di, published, todo,
             meals, pm_meal_ids, pm_meal_weights, all_meal_ids, all_meal_weights,
             resolved>>
vars == <<recVars, pubVars, cfgVars, runVars>>

(* ------------------------------ values -------------------------------- *)

\* src line 11
BRAND == "Viking"

\* A JSON value of a nutrition field: a number, null/absent, the "N/A" default
\* of nutrition.get(..., "N/A"), or some other text float() cannot parse.
Num(v) == [k |-> "num", v |-> v]
NoneVal == [k |-> "none", v |-> 0]
NA == [k |-> "na", v |-> 0]
Text == [k |-> "text", v |-> 0]

\* How a request ends: a success status with a body, a non-success status
\* (BaseClient returns None / False), or an exception out of requests
\* (timeout, connection error) or out of response.json() (malformed body).
Outcomes == {"ok", "status", "raise"}

Abs(x) == IF x < 0 THEN -x ELSE x
Max(a, b) == IF a >= b THEN a ELSE b

\* float(x): defined on numbers only; None raises TypeError, text ValueError.
Parses(x) == x.k = "num"

values_match(existing_val, new_val) ==
    IF new_val = NA THEN TRUE
    ELSE IF existing_val = NoneVal THEN TRUE
    ELSE IF ~Parses(existing_val) \/ ~Parses(new_val) THEN TRUE
    ELSE Abs(existing_val.v - new_val.v) * 1000
            <= Max(Abs(existing_val.v), Abs(new_val.v))

(* --------------------------- the reconciler --------------------------- *)

\* Model bounds on the reconciler's inputs.
MaxInitProducts == 3
MaxCalls == 2

MenuMealNames == {"Kurczak", "Zupa"}
Brands == {BRAND, "Other"}
Energies == {Num(1001), Num(1002), NoneVal}
Calories == {Num(1000), NA}
Dates == {1, 2}

Product(id, name, brand, energy) ==
    [foodId |-> id, name |-> name, brand |-> brand, energy |-> energy]

\* FitatuClient.get on the search URL: the tracker answers with the user's
\* products that the phrase hits (here: all of them), or the request fails.
SearchResponse(outcome, store) ==
    IF outcome = "ok" THEN [ok |-> TRUE, body |-> store]
    ELSE [ok |-> FALSE, body |-> <<>>]

\* A faulty variant of IsCandidate: the brand is not compared.
IsCandidateAnyBrand(p, name) == p.name = name

IsCandidate(p, name) == p.name = name /\ p.brand = BRAND

search_all_products(response, name) ==
    LET Keep(p) == IsCandidate(p, name)
    IN IF response.ok /\ response.body # <<>>
       THEN SelectSeq(response.body, Keep)
       ELSE <<>>

\* The matching loop: index of the first product whose energy matches, 0 if none.
RECURSIVE FirstMatchFrom(_, _, _)
FirstMatchFrom(existing, calories, i) ==
    IF i > Len(existing) THEN 0
    ELSE IF values_match(existing[i].energy, calories) THEN i
    ELSE FirstMatchFrom(existing, calories, i + 1)

\* A faulty variant of FirstMatch: the loop starts at the second product.
FirstMatchSkippingFirst(existing, calories) == FirstMatchFrom(existing, calories, 2)

\* A faulty variant of FirstMatch: the loop has no break, so the last match wins.
RECURSIVE LastMatchFrom(_, _, _)
LastMatchFrom(existing, calories, i) ==
    IF i < 1 THEN 0
    ELSE IF values_match(existing[i].energy, calories) THEN i
    ELSE LastMatchFrom(existing, calories, i - 1)

LastMatch(existing, calories) == LastMatchFrom(existing, calories, Len(existing))

FirstMatch(existing, calories) == FirstMatchFrom(existing, calories, 1)

\* A faulty variant of DeleteTargets: only the products after the matched one are deleted.
DeleteTargetsAfterMatch(existing, matched_id) ==
    LET Later(i) == \E j \in 1..(i - 1) : existing[j].foodId = matched_id
        idx == {i \in 1..Len(existing) : Later(i)}
    IN IF idx = {} THEN <<>>
       ELSE SubSeq(existing, Len(existing) - Cardinality(idx) + 1, Len(existing))

\* The products the deduplication loop calls delete_product for, in order.
DeleteTargets(existing, matched_id) ==
    LET Other(p) == p.foodId # matched_id
    IN SelectSeq(existing, Other)

\* The delete loop stops at the first request that raises.
RECURSIVE FirstRaiseFrom(_, _, _)
FirstRaiseFrom(targets, dout, i) ==
    IF i > Len(targets) THEN 0
    ELSE IF dout[targets[i].foodId] = "raise" THEN i
    ELSE FirstRaiseFrom(targets, dout, i + 1)

Ids(seq) == {seq[i].foodId : i \in 1..Len(seq)}
IdSeq(seq) == [i \in 1..Len(seq) |-> seq[i].foodId]

\* delete_product on the tracker: a success status removes the product.
TrackerDelete(store, ids) ==
    LET Stays(p) == p.foodId \notin ids
    IN SelectSeq(store, Stays)

\* create_product on the tracker: the product is stored with the fields sent.
TrackerCreate(store, id, name, calories) ==
    Append(store, Product(id, name, BRAND, calories))

NoCall ==
    [st |-> "none", name |-> "", calories |-> NA, date |-> 0, ret |-> 0,
     searchOk |-> FALSE, searched |-> <<>>, existing |-> <<>>, matched |-> FALSE,
     deletes |-> <<>>, deleted |-> {}, creates |-> 0, allOk |-> FALSE]

\* create_or_find_product with the outcome of each request it makes chosen:
\* s the search, dout the delete of each foodId, c the create. The result is
\* the tracker's store afterwards and the record of the call; ret = 0 is None.
Reconcile(name, nutrition, date, store, nid, s, dout, c) ==
    LET calories == nutrition.calories
        response == SearchResponse(s, store)
        existing == search_all_products(response, name)
        m == FirstMatch(existing, calories)
        base == [NoCall EXCEPT !.name = name, !.calories = calories,
                               !.date = date, !.searchOk = response.ok,
                               !.searched = response.body,
                               !.existing = existing]
    IN IF s = "raise"
       THEN [store |-> store, nid |-> nid,
             call |-> [NoCall EXCEPT !.st = "raised", !.name = name,
                                     !.calories = calories, !.date = date]]
       ELSE IF m # 0
       THEN LET matched_id == existing[m].foodId
                targets == DeleteTargets(existing, matched_id)
                k == FirstRaiseFrom(targets, dout, 1)
                issued == IF k = 0 THEN targets ELSE SubSeq(targets, 1, k)
                gone == {id \in Ids(issued) : dout[id] = "ok"}
            IN [store |-> TrackerDelete(store, gone), nid |-> nid,
                call |-> [base EXCEPT
                    !.st = IF k = 0 THEN "returned" ELSE "raised",
                    !.ret = IF k = 0 THEN matched_id ELSE 0,
                    !.matched = TRUE,
                    !.deletes = IdSeq(issued),
                    !.deleted = gone,
                    !.allOk = response.ok /\ gone = Ids(targets)]]
       ELSE IF c = "ok"
       THEN [store |-> TrackerCreate(store, nid, name, calories), nid |-> nid + 1,
             call |-> [base EXCEPT !.st = "returned", !.ret = nid,
                                   !.creates = 1, !.allOk = response.ok]]
       ELSE [store |-> store, nid |-> nid,
             call |-> [base EXCEPT
                 !.st = IF c = "raise" THEN "raised" ELSE "returned",
                 !.creates = 1]]

\* Which requests a call makes after its search ended as s: the deletes of
\* the matched path or the create of the no-match path.
CallPath(name, nutrition, store, s) ==
    LET existing == search_all_products(SearchResponse(s, store), name)
        m == FirstMatch(existing, nutrition.calories)
    IN IF s = "raise" THEN [deletes |-> {}, create |-> FALSE]
       ELSE IF m # 0
       THEN [deletes |-> Ids(DeleteTargets(existing, existing[m].foodId)),
             create |-> FALSE]
       ELSE [deletes |-> {}, create |-> TRUE]

CreateOrFindProduct(name, nutrition, date) ==
    \E s \in Outcomes :
      LET path == CallPath(name, nutrition, products, s)
      IN \E c \in (IF path.create THEN Outcomes ELSE {"ok"}) :
           \E dout \in [path.deletes -> Outcomes] :
             LET r == Reconcile(name, nutrition, date, products, nextId, s, dout, c)
             IN /\ products' = r.store
                /\ nextId' = r.nid
                /\ prevCfp' = cfp
                /\ cfp' = r.call

Nutritions == [calories : Calories, weight : {Num(350)}]

\* What the tracker may hold before a run: vendor products of the meal's name
\* with any energy, a same-named product of another brand, and a vendor
\* product of another name.
InitProductKinds ==
    {<<"Kurczak", BRAND, e>> : e \in Energies}
        \cup {<<"Kurczak", "Other", Num(1001)>>, <<"Zupa", BRAND, Num(1001)>>}

InitStores ==
    UNION {
        {[i \in 1..n |-> Product(i, ks[i][1], ks[i][2], ks[i][3])] :
            ks \in [1..n -> InitProductKinds]}
        : n \in 0..MaxInitProducts }

(* ---------------------------- the publisher --------------------------- *)

\* Model bound on the number of publishes.
MaxPublishes == 2

\* src lines 14-20 (the vendor's slot names, without their diacritics)
MealNames == {"Sniadanie", "II sniadanie", "Obiad", "Podwieczorek", "Kolacja"}

MEAL_MAPPING ==
    [n \in MealNames |->
        CASE n = "Sniadanie" -> "breakfast"
          [] n = "II sniadanie" -> "second_breakfast"
          [] n = "Obiad" -> "dinner"
          [] n = "Podwieczorek" -> "snack"
          [] n = "Kolacja" -> "supper"]

Slots == {MEAL_MAPPING[n] : n \in MealNames}

\* MEAL_MAPPING.get(meal_name): "" stands for None.
MappedKey(meal_name) ==
    IF meal_name \in DOMAIN MEAL_MAPPING THEN MEAL_MAPPING[meal_name] ELSE ""

\* The meal names of the model's inputs, in the order the dict is iterated;
\* "Lunch" is a vendor slot the mapping does not know.
MealOrder == <<"Obiad", "Lunch">>
UsedMealNames == {MealOrder[i] : i \in 1..Len(MealOrder)}

\* Products of the vendor's brand that a published meal resolves to, and the
\* product of another brand that the user put into the plan.
VendorProductIds == {1, 2}
OtherBrandProductIds == {9}

\* The tracker shows every plan item with the brand of its product.
BrandOfProduct(pid) == IF pid \in OtherBrandProductIds THEN "Other" ELSE BRAND

Weights == {Num(350), NA}

\* src line 357: meal_weights.get(meal_name, 100)
DefaultWeight == 100

Item(id, pid, at, qty) ==
    [itemId |-> id, productId |-> pid, brand |-> BrandOfProduct(pid),
     deletedAt |-> at, measureQuantity |-> qty]

EmptyPlan == [s \in Slots |-> <<>>]

\* FitatuClient.get on the day's plan: the tracker answers with the stored
\* plan of the date, or the request fails.
PlanResponse(outcome, stored) ==
    IF outcome = "ok" THEN [ok |-> TRUE, body |-> stored]
    ELSE [ok |-> FALSE, body |-> EmptyPlan]

get_existing_diet_plan(response) ==
    LET Vendor(item) == item.brand = BRAND
    IN IF response.ok
       THEN [s \in Slots |-> SelectSeq(response.body[s], Vendor)]
       ELSE EmptyPlan

Range(f) == {f[x] : x \in DOMAIN f}

\* src line 347
IsStale(item, meal_ids) == item["productId"] \notin Range(meal_ids)

\* A faulty variant of MarkStale: an item that already has a timestamp keeps it.
MarkStaleOnce(items, meal_ids, now) ==
    [i \in 1..Len(items) |->
        IF IsStale(items[i], meal_ids) /\ items[i].deletedAt = 0
        THEN [items[i] EXCEPT !.deletedAt = now]
        ELSE items[i]]

\* The marking loop over one slot's items: all are kept, the stale stamped.
MarkStale(items, meal_ids, now) ==
    [i \in 1..Len(items) |->
        IF IsStale(items[i], meal_ids)
        THEN [items[i] EXCEPT !.deletedAt = now]
        ELSE items[i]]

\* int(meal_weight): a number converts, "N/A" raises ValueError.
IntOk(w) == w.k = "num"
IntOf(w) == w.v

\* A faulty variant of AlreadyInPlan: nothing is ever found in the existing plan.
NeverInPlan(existing_plan, mapped_key, meal_id) == FALSE

\* The condition of line 321: an item of the slot has this productId.
AlreadyInPlan(existing_plan, mapped_key, meal_id) ==
    /\ meal_id # 0
    /\ mapped_key \in DOMAIN existing_plan
    /\ \E i \in 1..Len(existing_plan[mapped_key]) :
          existing_plan[mapped_key][i].productId = meal_id

\* add_meal_to_diet_plan on the accumulated state acc of the publish loop:
\* the plan under construction, the next uuid, and whether int() raised.
add_meal_to_diet_plan(acc, meal_name, meal_id, meal_weight, existing_plan) ==
    LET mapped_key == MappedKey(meal_name)
    IN IF mapped_key = "" THEN acc
       ELSE IF AlreadyInPlan(existing_plan, mapped_key, meal_id) THEN acc
       ELSE IF ~IntOk(meal_weight) THEN [acc EXCEPT !.raised = TRUE]
       ELSE [acc EXCEPT
               !.diet_plan[mapped_key] =
                   Append(@, [itemId |-> acc.uuid, productId |-> meal_id,
                              brand |-> "", deletedAt |-> 0,
                              measureQuantity |-> IntOf(meal_weight)]),
               !.uuid = @ + 1,
               !.added = @ \cup {<<mapped_key, meal_id>>}]

\* The loop of lines 356-357 over meal_ids.items(), from position i on.
RECURSIVE AddMeals(_, _, _, _, _)
AddMeals(acc, i, meal_ids, meal_weights, existing_plan) ==
    IF i > Len(MealOrder) \/ acc.raised THEN acc
    ELSE LET n == MealOrder[i]
         IN IF n \notin DOMAIN meal_ids
            THEN AddMeals(acc, i + 1, meal_ids, meal_weights, existing_plan)
            ELSE AddMeals(
                    add_meal_to_diet_plan(acc, n, meal_ids[n],
                        IF n \in DOMAIN meal_weights THEN meal_weights[n]
                        ELSE Num(DefaultWeight),
                        existing_plan),
                    i + 1, meal_ids, meal_weights, existing_plan)

\* FitatuClient.post of the plan on the tracker: each submitted item replaces
\* the stored item with its id or is added to its slot.
TrackerStore(stored, diet_plan) ==
    [s \in Slots |->
        LET sent == {diet_plan[s][i].itemId : i \in 1..Len(diet_plan[s])}
            Untouched(item) == item.itemId \notin sent
            Shown(item) == [item EXCEPT !.brand = BrandOfProduct(item.productId)]
        IN SelectSeq(stored[s], Untouched)
             \o [i \in 1..Len(diet_plan[s]) |-> Shown(diet_plan[s][i])]]

NoPublish ==
    [st |-> "none", date |-> 0, meal_ids |-> <<>>, getOk |-> FALSE,
     existing |-> EmptyPlan, submitted |-> EmptyPlan, added |-> {},
     now |-> 0, posted |-> FALSE, postOk |-> FALSE]

\* publish_diet_plan with the outcome of its two requests chosen: g the read
\* of the existing plan, p the write. The result is the tracker's plan of the
\* date afterwards, the next uuid and the record of the call.
Publish(date, meal_ids, meal_weights, stored, now, uuid, g, p) ==
    LET response == PlanResponse(g, stored)
        existing_plan == get_existing_diet_plan(response)
        marked == [s \in Slots |-> MarkStale(existing_plan[s], meal_ids, now)]
        acc == AddMeals([diet_plan |-> marked, uuid |-> uuid, raised |-> FALSE,
                         added |-> {}],
                        1, meal_ids, meal_weights, existing_plan)
        base == [NoPublish EXCEPT !.date = date, !.meal_ids = meal_ids,
                                  !.now = now]
    IN IF g = "raise"
       THEN [stored |-> stored, uuid |-> uuid,
             call |-> [base EXCEPT !.st = "raised"]]
       ELSE IF acc.raised
       THEN [stored |-> stored, uuid |-> acc.uuid,
             call |-> [base EXCEPT !.st = "raised", !.getOk = response.ok,
                                   !.existing = existing_plan]]
       ELSE [stored |-> IF p = "ok" THEN TrackerStore(stored, acc.diet_plan)
                        ELSE stored,
             uuid |-> acc.uuid,
             call |-> [base EXCEPT
                 !.st = IF p = "raise" THEN "raised" ELSE "returned",
                 !.getOk = response.ok,
                 !.existing = existing_plan,
                 !.submitted = acc.diet_plan,
                 !.added = acc.added,
                 !.posted = TRUE,
                 !.postOk = (p = "ok")]]

PublishDietPlan(date, meal_ids, meal_weights) ==
    \E g \in Outcomes :
      \E p \in (IF g = "raise" THEN {"ok"} ELSE Outcomes) :
        LET r == Publish(date, meal_ids, meal_weights, plan[date], clock,
                         nextItem, g, p)
        IN /\ plan' = [plan EXCEPT ![date] = r.stored]
           /\ nextItem' = r.uuid
           /\ clock' = clock + 1
           /\ prevPub' = pub
           /\ pub' = r.call
           /\ blind' = (blind \/ (r.call.postOk /\ ~r.call.getOk))

\* The maps a publish is given: "Obiad" resolved to either vendor product or
\* not at all, the unmapped "Lunch" resolved to product 2 or not at all.
MealIdMaps ==
    {m \in UNION {[D -> VendorProductIds] : D \in SUBSET UsedMealNames} :
        "Lunch" \in DOMAIN m => m["Lunch"] = 2}

\* The weights that go with a map: the vendor's weight for every meal, or
\* none for "Obiad" (nutrition.get("weight", "N/A")).
WeightMaps(meal_ids) ==
    {w \in [DOMAIN meal_ids -> Weights] :
        \A n \in DOMAIN meal_ids : w[n] = NA => n = "Obiad"}

\* What a day's plan may hold before a run: in the dinner slot an item of
\* another brand and an item of the vendor's product 1 from an earlier run,
\* live or soft-deleted; in the supper slot an item of the vendor's product 2.
InitDayPlans ==
    {[EmptyPlan EXCEPT !["dinner"] = dinner, !["supper"] = supper] :
        dinner \in {<<>>, <<Item(1, 9, 0, 100)>>,
                    <<Item(2, 1, 0, 350)>>,
                    <<Item(1, 9, 0, 100), Item(2, 1, 0, 350)>>,
                    <<Item(2, 1, 1, 350)>>},
        supper \in {<<>>, <<Item(3, 2, 0, 350)>>}}

\* The date the publisher alone is called for.
PublishDates == {1}

InitPublisherIdle ==
    /\ plan = [d \in Dates |-> EmptyPlan]
    /\ nextItem = 4
    /\ clock = 2
    /\ pub = NoPublish
    /\ prevPub = NoPublish
    /\ blind = FALSE
    /\ pubs = 0

InitReconcilerIdle ==
    /\ products = <<>>
    /\ nextId = 1
    /\ cfp = NoCall
    /\ prevCfp = NoCall
    /\ calls = 0

(* ------------------------------- the run ------------------------------ *)

\* A config value that getattr(config, ..., None) found, or None.
Unset == [set |-> FALSE, v |-> <<>>]
Set(v) == [set |-> TRUE, v |-> v]

\* Python's truth value of a list or tuple that may be None.
Truthy(c) == c.set /\ Len(c.v) > 0

\* Dates are day numbers; strptime, timedelta(days=i) and strftime of lines
\* 112-113 are the arithmetic on them.
DateRange(start_date, end_date) ==
    [i \in 1..(IF end_date >= start_date THEN end_date - start_date + 1 ELSE 0)
        |-> start_date + (i - 1)]

select_dates(dates, range) ==
    IF Truthy(dates) /\ Truthy(range) THEN [raised |-> TRUE, dates |-> <<>>]
    ELSE IF dates.set THEN [raised |-> FALSE, dates |-> dates.v]
    ELSE IF range.set /\ Len(range.v) = 2
    THEN [raised |-> FALSE, dates |-> DateRange(range.v[1], range.v[2])]
    ELSE [raised |-> FALSE, dates |-> <<>>]

fetch_deliveries_for_date(data, target_date) ==
    LET OnDate(d) == d.date = target_date
    IN SelectSeq(data, OnDate)

Delivery(id, date) == [deliveryId |-> id, date |-> date]

\* deliveryMealId = 0 stands for null, menuMealName = "" for a missing name.
Meal(mealName, menuMealName, deliveryMealId, calories) ==
    [mealName |-> mealName, menuMealName |-> menuMealName,
     deliveryMealId |-> deliveryMealId,
     nutrition |-> [calories |-> calories, weight |-> Num(350)]]

\* The configurations and orders of the model's runs.
DateListOptions == {Unset, Set(<<>>), Set(<<1>>), Set(<<1, 2>>)}
DateRangeOptions == {Unset, Set(<<1, 2>>)}
OrderOptions ==
    {<<Delivery(1, 1)>>,
     <<Delivery(1, 2), Delivery(2, 1), Delivery(3, 1)>>}
\* The vendor's menu of each delivery: two delivered meals of one dish; a meal
\* that was not delivered, an unmapped meal without calories and a meal without
\* a dish name; one delivered meal.
MenuAtVendor(deliveryId) ==
    CASE deliveryId = 1 ->
           <<Meal("Obiad", "Kurczak", 1, Num(1000)),
             Meal("Kolacja", "Kurczak", 2, Num(1000))>>
      [] deliveryId = 2 ->
           <<Meal("Kolacja", "Zupa", 0, Num(1000)), Meal("Lunch", "Zupa", 2, NA),
             Meal("Obiad", "", 3, Num(1000))>>
      [] OTHER -> <<Meal("Obiad", "Kurczak", 1, Num(1000))>>

NoMap == <<>>

Put(f, k, v) ==
    [x \in DOMAIN f \cup {k} |-> IF x = k THEN v ELSE f[x]]

\* dict.update
Update(f, g) ==
    [x \in DOMAIN f \cup DOMAIN g |-> IF x \in DOMAIN g THEN g[x] ELSE f[x]]

\* The requests a create_or_find_product call sent.
CfpRequests(call) == 1 + Len(call.deletes) + call.creates

\* The requests a publish_diet_plan call sent.
PubRequests(call) == 1 + (IF call.posted THEN 1 ELSE 0)

InitRunIdle ==
    /\ TARGET_DATES = Unset
    /\ TARGET_DATE_RANGE = Unset
    /\ orderAtVendor = <<>>
    /\ pc = "idle"
    /\ err = ""
    /\ netCalls = 0
    /\ order_data = <<>>
    /\ selected = <<>>
    /\ di = 0
    /\ published = <<>>
    /\ todo = <<>>
    /\ meals = <<>>
    /\ pm_meal_ids = NoMap
    /\ pm_meal_weights = NoMap
    /\ all_meal_ids = NoMap
    /\ all_meal_weights = NoMap
    /\ resolved = {}

\* Before a run the tracker holds what an earlier run left: product 1 and, in
\* each day's dinner slot, an item of it.
Init ==
    /\ TARGET_DATES \in DateListOptions
    /\ TARGET_DATE_RANGE \in DateRangeOptions
    /\ orderAtVendor \in OrderOptions
    /\ products = <<Product(1, "Kurczak", BRAND, Num(1001))>>
    /\ nextId = 2
    /\ plan = [d \in Dates |->
                  [EmptyPlan EXCEPT !["dinner"] = <<Item(d, 1, 0, 350)>>]]
    /\ cfp = NoCall /\ prevCfp = NoCall /\ calls = 0
    /\ nextItem = 4 /\ clock = 2
    /\ pub = NoPublish /\ prevPub = NoPublish /\ blind = FALSE /\ pubs = 0
    /\ pc = "start"
    /\ err = ""
    /\ netCalls = 0
    /\ order_data = <<>>
    /\ selected = <<>>
    /\ di = 0
    /\ published = <<>>
    /\ todo = <<>>
    /\ meals = <<>>
    /\ pm_meal_ids = NoMap
    /\ pm_meal_weights = NoMap
    /\ all_meal_ids = NoMap
    /\ all_meal_weights = NoMap
    /\ resolved = {}

\* main, line 367-370: the order is fetched first.
FetchOrder ==
    /\ pc = "start"
    /\ \E o \in Outcomes :
          /\ pc' = IF o = "ok" THEN "select"
                   ELSE IF o = "raise" THEN "crashed" ELSE "done"
          /\ err' = IF o = "raise" THEN "transport" ELSE err
          /\ order_data' = IF o = "ok" THEN orderAtVendor ELSE order_data
    /\ netCalls' = netCalls + 1
    /\ UNCHANGED <<recVars, pubVars, cfgVars, selected, di, published, todo,
                   meals, pm_meal_ids, pm_meal_weights, all_meal_ids, all_meal_weights, resolved>>

\* main, line 372: select_dates() is called once the order is there.
SelectDates ==
    /\ pc = "select"
    /\ LET r == select_dates(TARGET_DATES, TARGET_DATE_RANGE)
       IN /\ pc' = IF r.raised THEN "crashed"
                   ELSE IF r.dates = <<>> THEN "done" ELSE "date"
          /\ err' = IF r.raised THEN "config" ELSE err
          /\ selected' = r.dates
          /\ published' = [i \in 1..Len(r.dates) |-> 0]
          /\ di' = 1
    /\ UNCHANGED <<recVars, pubVars, cfgVars, netCalls, order_data, todo,
                   meals, pm_meal_ids, pm_meal_weights, all_meal_ids, all_meal_weights, resolved>>

\* process_date, lines 297-303.
ProcessDate ==
    /\ pc = "date"
    /\ LET deliveries_on_date == fetch_deliveries_for_date(order_data, selected[di])
       IN /\ todo' = deliveries_on_date
          /\ pc' = IF deliveries_on_date = <<>> THEN "publish" ELSE "delivery"
    /\ all_meal_ids' = NoMap
    /\ all_meal_weights' = NoMap
    /\ resolved' = {}
    /\ UNCHANGED <<recVars, pubVars, cfgVars, err, netCalls, order_data,
                   selected, di, published, meals, pm_meal_ids, pm_meal_weights>>

\* process_meal, lines 270-276: the delivery's menu is fetched.
FetchMealDetails ==
    /\ pc = "delivery"
    /\ \E o \in Outcomes :
          /\ meals' = IF o = "ok" THEN MenuAtVendor(Head(todo).deliveryId)
                       ELSE <<>>
          /\ pm_meal_ids' = NoMap
          /\ pm_meal_weights' = NoMap
          /\ err' = IF o = "raise" THEN "transport" ELSE err
          /\ pc' = IF o = "ok" THEN "meal"
                   ELSE IF o = "raise" THEN "crashed"
                   ELSE IF Len(todo) > 1 THEN "delivery" ELSE "publish"
          /\ todo' = IF o = "status" THEN Tail(todo) ELSE todo
    /\ netCalls' = netCalls + 1
    /\ UNCHANGED <<recVars, pubVars, cfgVars, order_data, selected, di,
                   published, all_meal_ids, all_meal_weights, resolved>>

Reconcilable(meal) == meal.deliveryMealId # 0 /\ meal.menuMealName # ""

\* process_meal, lines 278-283: a meal without delivery or name is passed over.
SkipMeal ==
    /\ pc = "meal"
    /\ meals # <<>>
    /\ ~Reconcilable(Head(meals))
    /\ meals' = Tail(meals)
    /\ UNCHANGED <<recVars, pubVars, cfgVars, pc, err, netCalls, order_data,
                   selected, di, published, todo, pm_meal_ids, pm_meal_weights,
                   all_meal_ids, all_meal_weights, resolved>>

\* process_meal, lines 284-291: the meal's product is reconciled and recorded.
ReconcileMeal ==
    /\ pc = "meal"
    /\ meals # <<>>
    /\ Reconcilable(Head(meals))
    /\ LET meal == Head(meals)
       IN /\ CreateOrFindProduct(meal.menuMealName, meal.nutrition, selected[di])
          /\ pm_meal_ids' = IF cfp'.st = "returned" /\ cfp'.ret # 0
                         THEN Put(pm_meal_ids, meal.mealName, cfp'.ret)
                         ELSE pm_meal_ids
          /\ pm_meal_weights' = IF cfp'.st = "returned" /\ cfp'.ret # 0
                             THEN Put(pm_meal_weights, meal.mealName, meal.nutrition.weight)
                             ELSE pm_meal_weights
    /\ pc' = IF cfp'.st = "raised" THEN "crashed" ELSE pc
    /\ err' = IF cfp'.st = "raised" THEN "transport" ELSE err
    /\ netCalls' = netCalls + CfpRequests(cfp')
    /\ meals' = Tail(meals)
    /\ resolved' = IF cfp'.st = "returned" /\ cfp'.ret # 0
                   THEN resolved \cup {Head(meals).mealName} ELSE resolved
    /\ UNCHANGED <<calls, pubVars, cfgVars, order_data, selected, di, published,
                   todo, all_meal_ids, all_meal_weights>>

\* process_meal's return and process_date, lines 306-308: the delivery's maps
\* are merged into the date's.
EndDelivery ==
    /\ pc = "meal"
    /\ meals = <<>>
    /\ all_meal_ids' = IF pm_meal_ids # NoMap THEN Update(all_meal_ids, pm_meal_ids)
                       ELSE all_meal_ids
    /\ all_meal_weights' = IF pm_meal_ids # NoMap
                           THEN Update(all_meal_weights, pm_meal_weights)
                           ELSE all_meal_weights
    /\ todo' = Tail(todo)
    /\ pc' = IF Len(todo) > 1 THEN "delivery" ELSE "publish"
    /\ UNCHANGED <<recVars, pubVars, cfgVars, err, netCalls, order_data,
                   selected, di, published, meals, pm_meal_ids, pm_meal_weights,
                   resolved>>

\* main, line 376: the date's plan is published, then the next date is taken.
PublishDate ==
    /\ pc = "publish"
    /\ PublishDietPlan(selected[di], all_meal_ids, all_meal_weights)
    /\ published' = [published EXCEPT ![di] = @ + 1]
    /\ pc' = IF pub'.st = "raised" THEN "crashed"
             ELSE IF di < Len(selected) THEN "date" ELSE "done"
    /\ err' = IF pub'.st # "raised" THEN err
              ELSE IF pub'.getOk /\ ~pub'.posted THEN "value" ELSE "transport"
    /\ di' = IF pub'.st = "raised" THEN di ELSE di + 1
    /\ netCalls' = netCalls + PubRequests(pub')
    /\ UNCHANGED <<recVars, pubs, cfgVars, order_data, selected, todo, meals,
                   pm_meal_ids, pm_meal_weights, all_meal_ids, all_meal_weights, resolved>>

Next ==
    \/ FetchOrder
    \/ SelectDates
    \/ ProcessDate
    \/ FetchMealDetails
    \/ SkipMeal
    \/ ReconcileMeal
    \/ EndDelivery
    \/ PublishDate

Spec == Init /\ [][Next]_vars

(* ------------------------ claims about the run ------------------------ *)

RunEnded == pc \in {"done", "crashed"}

\* C7 as stated: when both a date list and a date range are configured, the
\* run ends with the configuration error and has sent no request.
C7_ConfigErrorBeforeNetwork ==
    (Truthy(TARGET_DATES) /\ Truthy(TARGET_DATE_RANGE)) =>
        /\ netCalls = 0
        /\ RunEnded => err = "config"

\* C8 as stated: once the dates are selected, the run ends only after every
\* selected date has reached its publish step, however the requests ended.
C8_EveryDateReachesPublish ==
    (RunEnded /\ err # "config") =>
        \A i \in 1..Len(selected) : published[i] >= 1

\* C9 as stated: publish_diet_plan is invoked exactly once for every selected
\* date by the time the run ends, never twice, for the dates in order and only
\* when the date's deliveries are all processed; it is given the map of the
\* meals that got a product id, also when that map is empty (no delivery, no
\* menu, no product), and a publish with the empty map submits every existing
\* vendor item with this run's deletion timestamp and nothing new.
C9_PublishOncePerDate ==
    /\ \A i \in 1..Len(selected) : published[i] <= 1
    /\ (RunEnded /\ err # "config") =>
          \A i \in 1..Len(selected) : published[i] = 1
    /\ pc \in {"date", "delivery", "meal", "publish"} =>
          \A i \in 1..Len(selected) : published[i] = IF i < di THEN 1 ELSE 0
    /\ pc = "publish" =>
          /\ todo = <<>>
          /\ DOMAIN all_meal_ids = resolved
    /\ (pc \in {"date", "done"} /\ pub.st # "none") =>
          /\ pub.date = selected[di - 1]
          /\ pub.meal_ids = all_meal_ids
    /\ (pub.posted /\ pub.meal_ids = NoMap) =>
          /\ pub.added = {}
          /\ \A s \in Slots :
                /\ Len(pub.submitted[s]) = Len(pub.existing[s])
                /\ \A i \in 1..Len(pub.existing[s]) :
                      pub.submitted[s][i].deletedAt = pub.now

(* -------------------------- publisher alone -------------------------- *)

InitPublish ==
    /\ InitReconcilerIdle
    /\ InitRunIdle
    /\ \E day \in InitDayPlans :
          plan = [d \in Dates |-> IF d \in PublishDates THEN day ELSE EmptyPlan]
    /\ nextItem = 4
    /\ clock = 2
    /\ pub = NoPublish
    /\ prevPub = NoPublish
    /\ blind = FALSE
    /\ pubs = 0

\* A call that raised ended the run: nothing is published after it.
CallPublisher ==
    /\ pubs < MaxPublishes
    /\ pub.st # "raised"
    /\ pubs' = pubs + 1
    /\ \E d \in PublishDates, meal_ids \in MealIdMaps :
         \E meal_weights \in WeightMaps(meal_ids) :
           PublishDietPlan(d, meal_ids, meal_weights)
    /\ UNCHANGED <<recVars, cfgVars, runVars>>

NextPublish == CallPublisher

SpecPublish == InitPublish /\ [][NextPublish]_vars


(* --------------------- claims about the publisher --------------------- *)

\* The (slot, productId) pairs of the items a call submitted.
Written(call) ==
    UNION {{<<s, call.submitted[s][i].productId>> :
                i \in 1..Len(call.submitted[s])} : s \in Slots}

RepeatedPublish ==
    /\ prevPub.st = "returned" /\ prevPub.postOk
    /\ pub.posted
    /\ pub.date = prevPub.date
    /\ pub.meal_ids = prevPub.meal_ids

NothingAddedAgain == pub.added \cap Written(prevPub) = {}

AtMostOnePerPair ==
    \A d \in Dates, s \in Slots :
        \A i, j \in 1..Len(plan[d][s]) :
            plan[d][s][i].productId = plan[d][s][j].productId => i = j

C5_StaleStampedCurrentUntouched ==
    pub.posted =>
        \A s \in Slots :
            /\ Len(pub.submitted[s]) >= Len(pub.existing[s])
            /\ \A i \in 1..Len(pub.existing[s]) :
                  LET old == pub.existing[s][i]
                      new == pub.submitted[s][i]
                  IN IF \E n \in DOMAIN pub.meal_ids :
                            pub.meal_ids[n] = old.productId
                     THEN new = old
                     ELSE new = [old EXCEPT !.deletedAt = pub.now]

\* A publish that stamped a stale item which had been soft-deleted before and
\* left a current item without a timestamp.
C5_Witness ==
    /\ pub.posted
    /\ \E s \in Slots : \E i \in 1..Len(pub.existing[s]) :
          /\ pub.existing[s][i].productId \notin Range(pub.meal_ids)
          /\ pub.existing[s][i].deletedAt \notin {0, pub.now}
          /\ pub.submitted[s][i].deletedAt = pub.now
    /\ \E s \in Slots : \E i \in 1..Len(pub.existing[s]) :
          /\ pub.existing[s][i].productId \in Range(pub.meal_ids)
          /\ pub.submitted[s][i].deletedAt = 0

\* The number of items appended to slot s for product pid by the last publish.
Appended(s, pid) ==
    Cardinality({i \in (Len(pub.existing[s]) + 1)..Len(pub.submitted[s]) :
                    pub.submitted[s][i].productId = pid})

\* C6 as stated: for every resolved meal whose name maps to a slot, the
\* insertion is skipped exactly when the existing plan has an item of that
\* slot with the same productId and without a deletion timestamp; otherwise
\* (also when the only such item is soft-deleted) one item is appended.
C6_SkipOnlyLiveItems ==
    pub.posted =>
        \A n \in DOMAIN pub.meal_ids :
            MappedKey(n) # "" =>
                LET s == MappedKey(n)
                    pid == pub.meal_ids[n]
                    live == \E i \in 1..Len(pub.existing[s]) :
                                /\ pub.existing[s][i].productId = pid
                                /\ pub.existing[s][i].deletedAt = 0
                IN Appended(s, pid) = IF live THEN 0 ELSE 1

(* ------------------------- reconciler alone -------------------------- *)

InitReconcile ==
    /\ InitPublisherIdle
    /\ InitRunIdle
    /\ products \in InitStores
    /\ nextId = Len(products) + 1
    /\ cfp = NoCall
    /\ prevCfp = NoCall
    /\ calls = 0

\* The date only selects the search URL (src line 123): one date is enough
\* when the reconciler is exercised alone.
ReconcileDates == {1}

\* The reconciler is called for some meal of that date.
CallReconciler ==
    /\ calls = 0
    /\ calls' = calls + 1
    /\ \E name \in MenuMealNames, n \in Nutritions, d \in ReconcileDates :
           CreateOrFindProduct(name, n, d)
    /\ UNCHANGED <<pubVars, cfgVars, runVars>>

\* It is called again with the arguments of the call that just returned (a
\* call that raised ended the run: nothing is called after it).
RepeatCall ==
    /\ calls > 0
    /\ calls < MaxCalls
    /\ cfp.st = "returned"
    /\ calls' = calls + 1
    /\ CreateOrFindProduct(cfp.name, [calories |-> cfp.calories, weight |-> Num(350)],
                           cfp.date)
    /\ UNCHANGED <<pubVars, cfgVars, runVars>>

NextReconcile == CallReconciler \/ RepeatCall

SpecReconcile == InitReconcile /\ [][NextReconcile]_vars

(* --------------------- claims about the reconciler -------------------- *)

Matches(call, i) == values_match(call.existing[i].energy, call.calories)

\* The products now in the tracker that carry the call's name and the brand.
Remaining(call) ==
    {i \in 1..Len(products) :
        products[i].name = call.name /\ products[i].brand = BRAND}

SameArguments(a, b) ==
    a.name = b.name /\ a.calories = b.calories /\ a.date = b.date

TwoCallsInARow ==
    /\ prevCfp.st = "returned"
    /\ cfp.st = "returned"
    /\ SameArguments(prevCfp, cfp)

Idempotent ==
    /\ cfp.ret = prevCfp.ret
    /\ cfp.creates = 0
    /\ Cardinality(Remaining(cfp)) = 1

C2_FirstMatchKeptOthersDeleted ==
    (cfp.st = "returned" /\ \E i \in 1..Len(cfp.existing) : Matches(cfp, i)) =>
        \E i \in 1..Len(cfp.existing) :
            /\ Matches(cfp, i)
            /\ \A j \in 1..(i - 1) : ~Matches(cfp, j)
            /\ cfp.ret = cfp.existing[i].foodId
            /\ Len(cfp.deletes) = Len(cfp.existing) - 1
            /\ cfp.deletes =
                 [j \in 1..(Len(cfp.existing) - 1) |->
                     cfp.existing[IF j < i THEN j ELSE j + 1].foodId]
            /\ cfp.creates = 0

\* Three products, only the 2nd matches: its id is returned, two deletes.
C2_Witness ==
    /\ cfp.st = "returned"
    /\ Len(cfp.existing) = 3
    /\ ~Matches(cfp, 1) /\ Matches(cfp, 2) /\ ~Matches(cfp, 3)
    /\ cfp.ret = cfp.existing[2].foodId
    /\ cfp.deletes = <<cfp.existing[1].foodId, cfp.existing[3].foodId>>

\* C3 as stated: after every call that returns a product id, exactly one
\* product with the meal's name and the brand exists, the returned one (here
\* already for the calls whose requests all got a success response).
C3_Original ==
    (cfp.st = "returned" /\ cfp.ret # 0 /\ cfp.allOk) =>
        \A i \in 1..Len(products) :
            (products[i].name = cfp.name /\ products[i].brand = BRAND)
                <=> products[i].foodId = cfp.ret

\* C3, amended: after a call that returns a matched product's id and whose
\* deletes all succeeded, the returned product is the only one left with that
\* name and brand; a call that returns a newly created id has deleted nothing,
\* so the products its search found are all still there next to the new one.
C3_OneLeftAfterMatchAndDeletes ==
    /\ (cfp.st = "returned" /\ cfp.ret # 0 /\ cfp.matched
            /\ cfp.deleted = {cfp.deletes[k] : k \in 1..Len(cfp.deletes)}) =>
          {products[i].foodId : i \in Remaining(cfp)} = {cfp.ret}
    /\ (cfp.st = "returned" /\ cfp.ret # 0 /\ ~cfp.matched /\ cfp.searchOk) =>
          {products[i].foodId : i \in Remaining(cfp)}
              = Ids(cfp.existing) \cup {cfp.ret}

C3_Witness ==
    /\ cfp.st = "returned" /\ cfp.ret # 0 /\ cfp.matched
    /\ Len(cfp.deletes) = 2
    /\ cfp.deleted = {cfp.deletes[k] : k \in 1..Len(cfp.deletes)}
    /\ Cardinality(Remaining(cfp)) = 1

\* C10: in every call, a delete is issued only for the foodId of a product the
\* search returned with the meal's name and the brand, never for the returned
\* foodId; deletes happen only on the matched path, the at most one create only
\* on the no-match path, and no call issues both.
C10_DeletesOnlyDuplicates ==
    /\ \A k \in 1..Len(cfp.deletes) :
          /\ \E i \in 1..Len(cfp.searched) :
                /\ cfp.searched[i].foodId = cfp.deletes[k]
                /\ cfp.searched[i].name = cfp.name
                /\ cfp.searched[i].brand = BRAND
          /\ cfp.st = "returned" => cfp.deletes[k] # cfp.ret
    /\ cfp.creates <= 1
    /\ ~(cfp.creates > 0 /\ Len(cfp.deletes) > 0)
    /\ Len(cfp.deletes) > 0 => cfp.matched
    /\ cfp.creates > 0 => ~cfp.matched

\* A call that deleted a duplicate while the search had also returned a
\* same-named product of another brand, which is still there.
C10_Witness ==
    /\ cfp.st = "returned" /\ Len(cfp.deletes) > 0
    /\ \E i \in 1..Len(cfp.searched) :
          /\ cfp.searched[i].name = cfp.name
          /\ cfp.searched[i].brand # BRAND
          /\ \E j \in 1..Len(products) : products[j] = cfp.searched[i]

====
